---- MODULE Spec2Model ----
(***************************************************************************)
(* Model of app.py, the Streamlit accelerometer tracker.                   *)
(*                                                                         *)
(* The program is a script that Streamlit runs from top to bottom once per *)
(* "rerun".  What survives from one rerun to the next is st.session_state  *)
(* (is_running, positions, velocity, accel_data, last_ts).  The two        *)
(* KalmanFilter objects are module-level names of the script: they are     *)
(* constructed anew by every rerun (lines 72-73).  One step of the model   *)
(* is one rerun; its inputs are the button that triggered it (at most one  *)
(* button is True in a rerun) and the value of the "sensor" query          *)
(* parameter.                                                              *)
(*                                                                         *)
(* Python floats are modelled as exact rationals <<n, d>> (d > 0, lowest   *)
(* terms) extended with the IEEE special values: <<0,0>> is NaN, <<1,0>>   *)
(* is +Infinity and <<-1,0>> is -Infinity.  Rounding is not modelled.      *)
(***************************************************************************)
EXTENDS Integers, Sequences, FiniteSets, TLC

(***************************************************************************)
(* Bounds of the model.                                                    *)
(***************************************************************************)
\* payloads integrated since the page was loaded
MaxIngest == 3
\* largest deque capacity tried by the trajectory-log specification
MaxCap == 2

(***************************************************************************)
(* Python float arithmetic.                                                *)
(***************************************************************************)
RECURSIVE GCD(_, _)
GCD(a, b) == IF b = 0 THEN a ELSE GCD(b, a % b)

Abs(n) == IF n < 0 THEN -n ELSE n

Sgn(n) == IF n < 0 THEN -1 ELSE IF n > 0 THEN 1 ELSE 0

Norm(n, d) == LET g == GCD(Abs(n), d) IN <<n \div g, d \div g>>

NaN == <<0, 0>>
PInf == <<1, 0>>
NInf == <<-1, 0>>
Zero == <<0, 1>>
One == <<1, 1>>

Fl(n) == <<n, 1>>

IsNaN(a) == a = NaN

IsFinite(a) == a[2] # 0

IsInf(a) == a[2] = 0 /\ a[1] # 0

FNeg(a) == <<-a[1], a[2]>>

FAdd(a, b) ==
    IF IsNaN(a) \/ IsNaN(b) THEN NaN
    ELSE IF IsInf(a) THEN (IF IsInf(b) /\ b # a THEN NaN ELSE a)
    ELSE IF IsInf(b) THEN b
    ELSE LET g == GCD(a[2], b[2])
         IN  Norm(a[1] * (b[2] \div g) + b[1] * (a[2] \div g), (a[2] \div g) * b[2])

FSub(a, b) == FAdd(a, FNeg(b))

FMul(a, b) ==
    IF IsNaN(a) \/ IsNaN(b) THEN NaN
    ELSE IF IsInf(a) \/ IsInf(b)
         THEN (IF a[1] = 0 \/ b[1] = 0 THEN NaN ELSE <<Sgn(a[1]) * Sgn(b[1]), 0>>)
    ELSE LET g1 == GCD(Abs(a[1]), b[2])
             g2 == GCD(Abs(b[1]), a[2])
         IN  IF a[1] = 0 \/ b[1] = 0 THEN Zero
             ELSE <<(a[1] \div g1) * (b[1] \div g2), (a[2] \div g2) * (b[2] \div g1)>>

\* The divisors of the program are 1000.0 and P + R, never zero.
FDiv(a, b) ==
    IF IsNaN(a) \/ IsNaN(b) THEN NaN
    ELSE IF IsInf(b) THEN (IF IsInf(a) THEN NaN ELSE Zero)
    ELSE FMul(a, <<Sgn(b[1]) * b[2], Abs(b[1])>>)

\* a > b; every comparison with NaN is False
FGt(a, b) ==
    IF IsNaN(a) \/ IsNaN(b) THEN FALSE
    ELSE IF IsInf(a) THEN a = PInf /\ b # PInf
    ELSE IF IsInf(b) THEN b = NInf
    ELSE a[1] * b[2] > b[1] * a[2]

FLt(a, b) == FGt(b, a)

\* max(a, b) of Python: b replaces a only when b > a
FMax(a, b) == IF FGt(b, a) THEN b ELSE a

(***************************************************************************)
(* The sensor query parameter.  A payload is absent (or empty), a string   *)
(* that json.loads or .get rejects, or a JSON object whose fields x, y, z  *)
(* and ts are each a number, missing, or a value float() rejects.          *)
(***************************************************************************)
None == <<>>

Num(v) == <<"num", v>>
Missing == <<"missing", Zero>>
NonNumeric == <<"str", Zero>>

NoPayload == [kind |-> "none", x |-> Missing, y |-> Missing, z |-> Missing, ts |-> Missing]
BadJson == [kind |-> "bad", x |-> Missing, y |-> Missing, z |-> Missing, ts |-> Missing]
Obj(x, y, z, ts) == [kind |-> "obj", x |-> x, y |-> y, z |-> z, ts |-> ts]

ValidPayloads ==
    { Obj(Num(Fl(2)), Num(Zero), Num(Zero), Num(Fl(50 * i))) : i \in 0..2 }

MissingFieldPayloads == { Obj(Missing, Num(One), Num(Zero), Num(Fl(50))) }

NonNumericPayloads == { Obj(Num(Fl(2)), NonNumeric, Num(Zero), Num(Fl(50))) }

NonFinitePayloads == { Obj(Num(NaN), Num(PInf), Num(Zero), Num(Fl(50))) }

\* a sample at rest in the plane (ax = ay = 0, az = 1.5) that carries no timestamp
NoTimestampPayloads == { Obj(Num(Zero), Num(Zero), Num(<<3, 2>>), Missing) }

Payloads ==
    {NoPayload, BadJson} \cup ValidPayloads \cup MissingFieldPayloads
    \cup NonNumericPayloads \cup NonFinitePayloads \cup NoTimestampPayloads

(***************************************************************************)
(* Session state, filters and outputs of the latest rerun.                 *)
(***************************************************************************)
VARIABLES
    is_running,       \* st.session_state.is_running
    positions,        \* st.session_state.positions: items of the deque
    positions_maxlen, \* st.session_state.positions.maxlen
    velocity,         \* st.session_state.velocity
    accel_data,       \* st.session_state.accel_data
    last_ts,          \* st.session_state.last_ts
    kalman_x,         \* the script's kalman_x at the end of the rerun
    kalman_y,         \* the script's kalman_y at the end of the rerun
    phase,            \* phase shown by the rerun
    warned,           \* the rerun called st.warning
    ingested,         \* the rerun ran the try block to its end
    dt,               \* dt computed by the rerun, None if it computed none
    lastBtn,          \* button that triggered the rerun
    lastRaw,          \* sensor payload the rerun read
    fed,              \* payloads integrated since the last Reset
    appended,         \* points appended to the deque since it was last cleared
    fwd_x,            \* kalman_x as left by the latest integrated payload since Reset
    fwd_y,            \* kalman_y as left by the latest integrated payload since Reset
    everReset,        \* a Reset has happened
    nTotal,           \* payloads integrated since the page was loaded
    pre_running,      \* is_running when the rerun began
    pre_len,          \* len(positions) when the rerun began
    twice,            \* the rerun repeated the previous rerun's button, both without payload
    k_m,              \* filter study: the constant measurement fed to kalman_x
    k_n,              \* filter study: updates applied to kalman_x since it was constructed
    k_prev            \* filter study: kalman_x before its latest update

session == <<is_running, positions, positions_maxlen, velocity, accel_data, last_ts>>

vars == <<is_running, positions, positions_maxlen, velocity, accel_data, last_ts,
          kalman_x, kalman_y, phase, warned, ingested, dt, lastBtn, lastRaw,
          fed, appended, fwd_x, fwd_y, everReset, nTotal,
          pre_running, pre_len, twice, k_m, k_n, k_prev>>

maxlen == 1000

(***************************************************************************)
(* class KalmanFilter                                                      *)
(***************************************************************************)
process_variance == <<1, 1000>>
measurement_variance == <<1, 100>>

KalmanFilter == [x |-> Zero, P |-> One, Q |-> process_variance, R |-> measurement_variance]

\* gain computed from the measurement variance instead of the covariance
KalmanUpdate_SwappedGain(f, measurement) ==
    LET P1 == FAdd(f.P, f.Q)
        K == FDiv(f.R, FAdd(P1, f.R))
        x1 == FAdd(f.x, FMul(K, FSub(measurement, f.x)))
        P2 == FMul(P1, FSub(One, K))
    IN  [f EXCEPT !.x = x1, !.P = P2]

\* the covariance is predicted (line 65) but never shrunk (line 69 left out)
KalmanUpdate_NoShrink(f, measurement) ==
    LET P1 == FAdd(f.P, f.Q)
        K == FDiv(P1, FAdd(P1, f.R))
        x1 == FAdd(f.x, FMul(K, FSub(measurement, f.x)))
    IN  [f EXCEPT !.x = x1, !.P = P1]

KalmanUpdate(f, measurement) ==
    LET P1 == FAdd(f.P, f.Q)
        K == FDiv(P1, FAdd(P1, f.R))
        x1 == FAdd(f.x, FMul(K, FSub(measurement, f.x)))
        P2 == FMul(P1, FSub(One, K))
    IN  [f EXCEPT !.x = x1, !.P = P2]

(***************************************************************************)
(* The deque of positions.                                                 *)
(***************************************************************************)
\* eviction once the length exceeds the capacity instead of reaching it
DequeAppend_LateEvict(q, cap, p) ==
    IF Len(q) > cap THEN Append(SubSeq(q, Len(q) - cap + 1, Len(q)), p)
    ELSE Append(q, p)

DequeAppend(q, cap, p) ==
    IF Len(q) >= cap THEN Append(SubSeq(q, Len(q) - cap + 2, Len(q)), p)
    ELSE Append(q, p)

Latest(q) == IF Len(q) > 0 THEN q[Len(q)] ELSE <<Zero, Zero>>

(***************************************************************************)
(* The script.  A session record s holds the fields of st.session_state.   *)
(***************************************************************************)
SessionInit ==
    [is_running |-> FALSE, positions |-> <<>>, maxlen |-> maxlen,
     velocity |-> <<Zero, Zero>>, accel_data |-> <<Zero, Zero, Zero>>,
     last_ts |-> None]

\* a Start button that toggles the run flag
StartHandler_Toggle(s) == [s EXCEPT !.is_running = ~s.is_running]

StartHandler(s) == [s EXCEPT !.is_running = TRUE]

\* a Stop that also zeroes the velocity
StopHandler_ZeroVelocity(s) ==
    [s EXCEPT !.is_running = FALSE, !.velocity = <<Zero, Zero>>]

StopHandler(s) == [s EXCEPT !.is_running = FALSE]

\* a Reset that forgets to clear the last timestamp
ResetHandler_KeepLastTs(s) ==
    [s EXCEPT !.positions = <<>>,
              !.velocity = <<Zero, Zero>>,
              !.accel_data = <<Zero, Zero, Zero>>,
              !.is_running = FALSE]

\* a Reset that forgets to zero the velocity
ResetHandler_KeepVelocity(s) ==
    [s EXCEPT !.positions = <<>>,
              !.accel_data = <<Zero, Zero, Zero>>,
              !.last_ts = None,
              !.is_running = FALSE]

\* a Reset that forgets to zero the last filtered acceleration
ResetHandler_KeepAccel(s) ==
    [s EXCEPT !.positions = <<>>,
              !.velocity = <<Zero, Zero>>,
              !.last_ts = None,
              !.is_running = FALSE]

ResetHandler(s) ==
    [s EXCEPT !.positions = <<>>,
              !.velocity = <<Zero, Zero>>,
              !.accel_data = <<Zero, Zero, Zero>>,
              !.last_ts = None,
              !.is_running = FALSE]

Controls(s, btn) ==
    CASE btn = "start" -> StartHandler(s)
      [] btn = "stop" -> StopHandler(s)
      [] btn = "reset" -> ResetHandler(s)
      [] OTHER -> s

\* ingestion that is not gated by the run flag
ShouldIngest_Ungated(s, raw) == raw.kind # "none"

\* "if st.session_state.is_running and sensor_raw": None and "" are falsy
\* a payload whose timestamp is the one already recorded is skipped
ShouldIngest_Dedup(s, raw) ==
    /\ s.is_running
    /\ raw.kind # "none"
    /\ ~(raw.kind = "obj" /\ raw.ts[1] = "num" /\ s.last_ts = raw.ts[2])

ShouldIngest(s, raw) == s.is_running /\ raw.kind # "none"

\* float(d.get(key, 0.0)): a missing key reads as the default 0.0
ParseFloat(field) == IF field[1] = "num" THEN field[2] ELSE Zero

FloatRaises(field) == field[1] = "str"

\* parsing that lets a non-numeric y through
ParseRaises_SkipY(raw) ==
    \/ raw.kind = "bad"
    \/ FloatRaises(raw.x)
    \/ FloatRaises(raw.z)
    \/ FloatRaises(raw.ts)

\* json.loads, the .get calls and the four float() calls, in program order
ParseRaises(raw) ==
    \/ raw.kind = "bad"
    \/ FloatRaises(raw.x)
    \/ FloatRaises(raw.y)
    \/ FloatRaises(raw.z)
    \/ FloatRaises(raw.ts)

\* "if last_ts": None and 0.0 are falsy, NaN is truthy
Truthy(t) == t # None /\ t # Zero

dt_min == <<1, 100>>
dt_default == <<1, 20>>

ComputeDt(ts, prev_ts) ==
    IF Truthy(prev_ts) THEN FMax(dt_min, FDiv(FSub(ts, prev_ts), Fl(1000)))
    ELSE dt_default

\* thresholds compared with >= and <= instead of > and <
Classify_Inclusive(a) ==
    LET m2 == FAdd(FAdd(FMul(a[1], a[1]), FMul(a[2], a[2])), FMul(a[3], a[3]))
    IN  IF ~FLt(m2, <<9, 4>>) /\ ~IsNaN(m2) THEN "Accelerating"
        ELSE IF ~FGt(m2, <<1, 4>>) /\ ~IsNaN(m2) THEN "Braking"
        ELSE "Stable"

Classify(a) ==
    LET m2 == FAdd(FAdd(FMul(a[1], a[1]), FMul(a[2], a[2])), FMul(a[3], a[3]))
    IN  IF FGt(m2, <<9, 4>>) THEN "Accelerating"
        ELSE IF FLt(m2, <<1, 4>>) THEN "Braking"
        ELSE "Stable"

\* the position advanced with the velocity of before the step
Integrate_OldVelocity(s, raw) ==
    LET ax == ParseFloat(raw.x)
        ay == ParseFloat(raw.y)
        az == ParseFloat(raw.z)
        ts == ParseFloat(raw.ts)
        kx == KalmanUpdate(KalmanFilter, ax)
        ky == KalmanUpdate(KalmanFilter, ay)
        d == ComputeDt(ts, s.last_ts)
        vx == FAdd(s.velocity[1], FMul(kx.x, d))
        vy == FAdd(s.velocity[2], FMul(ky.x, d))
        prev == Latest(s.positions)
        x == FAdd(prev[1], FMul(s.velocity[1], d))
        y == FAdd(prev[2], FMul(s.velocity[2], d))
    IN  [s |-> [s EXCEPT !.last_ts = ts,
                         !.velocity = <<vx, vy>>,
                         !.positions = DequeAppend(s.positions, s.maxlen, <<x, y>>),
                         !.accel_data = <<kx.x, ky.x, az>>],
         kalman_x |-> kx, kalman_y |-> ky, warned |-> FALSE, ingested |-> TRUE,
         dt |-> d, point |-> <<<<x, y>>>>]

\* the position advanced by the velocity without the factor dt
Integrate_PositionWithoutDt(s, raw) ==
    LET ax == ParseFloat(raw.x)
        ay == ParseFloat(raw.y)
        az == ParseFloat(raw.z)
        ts == ParseFloat(raw.ts)
        kx == KalmanUpdate(KalmanFilter, ax)
        ky == KalmanUpdate(KalmanFilter, ay)
        d == ComputeDt(ts, s.last_ts)
        vx == FAdd(s.velocity[1], FMul(kx.x, d))
        vy == FAdd(s.velocity[2], FMul(ky.x, d))
        prev == Latest(s.positions)
        x == FAdd(prev[1], vx)
        y == FAdd(prev[2], vy)
    IN  [s |-> [s EXCEPT !.last_ts = ts,
                         !.velocity = <<vx, vy>>,
                         !.positions = DequeAppend(s.positions, s.maxlen, <<x, y>>),
                         !.accel_data = <<kx.x, ky.x, az>>],
         kalman_x |-> kx, kalman_y |-> ky, warned |-> FALSE, ingested |-> TRUE,
         dt |-> d, point |-> <<<<x, y>>>>]

\* The try block, for a payload that parses.
Integrate(s, raw) ==
    LET ax == ParseFloat(raw.x)
        ay == ParseFloat(raw.y)
        az == ParseFloat(raw.z)
        ts == ParseFloat(raw.ts)
        kx == KalmanUpdate(KalmanFilter, ax)
        ky == KalmanUpdate(KalmanFilter, ay)
        d == ComputeDt(ts, s.last_ts)
        vx == FAdd(s.velocity[1], FMul(kx.x, d))
        vy == FAdd(s.velocity[2], FMul(ky.x, d))
        prev == Latest(s.positions)
        x == FAdd(prev[1], FMul(vx, d))
        y == FAdd(prev[2], FMul(vy, d))
    IN  [s |-> [s EXCEPT !.last_ts = ts,
                         !.velocity = <<vx, vy>>,
                         !.positions = DequeAppend(s.positions, s.maxlen, <<x, y>>),
                         !.accel_data = <<kx.x, ky.x, az>>],
         kalman_x |-> kx, kalman_y |-> ky, warned |-> FALSE, ingested |-> TRUE,
         dt |-> d, point |-> <<<<x, y>>>>]

Ingestion(s, raw) ==
    IF ~ShouldIngest(s, raw)
    THEN [s |-> s, kalman_x |-> KalmanFilter, kalman_y |-> KalmanFilter,
          warned |-> FALSE, ingested |-> FALSE, dt |-> None, point |-> <<>>]
    ELSE IF ParseRaises(raw)
    THEN [s |-> s, kalman_x |-> KalmanFilter, kalman_y |-> KalmanFilter,
          warned |-> TRUE, ingested |-> FALSE, dt |-> None, point |-> <<>>]
    ELSE Integrate(s, raw)

ScriptRun(s, btn, raw) == Ingestion(Controls(s, btn), raw)

Session ==
    [is_running |-> is_running, positions |-> positions, maxlen |-> positions_maxlen,
     velocity |-> velocity, accel_data |-> accel_data, last_ts |-> last_ts]

(***************************************************************************)
(* One rerun of the script.                                                *)
(***************************************************************************)
Rerun(btn, raw) ==
    \E r \in {ScriptRun(Session, btn, raw)} :
    LET cleared == btn = "reset"
        fed0 == IF cleared THEN <<>> ELSE fed
        app0 == IF cleared THEN <<>> ELSE appended
    IN  /\ r.ingested => nTotal < MaxIngest
        /\ nTotal' = IF r.ingested THEN nTotal + 1 ELSE nTotal
        /\ is_running' = r.s.is_running
        /\ positions' = r.s.positions
        /\ positions_maxlen' = r.s.maxlen
        /\ velocity' = r.s.velocity
        /\ accel_data' = r.s.accel_data
        /\ last_ts' = r.s.last_ts
        /\ kalman_x' = r.kalman_x
        /\ kalman_y' = r.kalman_y
        /\ phase' = Classify(r.s.accel_data)
        /\ warned' = r.warned
        /\ ingested' = r.ingested
        /\ dt' = r.dt
        /\ lastRaw' = raw
        /\ fed' = IF r.ingested THEN Append(fed0, raw) ELSE fed0
        /\ appended' = app0 \o r.point
        /\ fwd_x' = IF r.ingested THEN r.kalman_x ELSE IF cleared THEN KalmanFilter ELSE fwd_x
        /\ fwd_y' = IF r.ingested THEN r.kalman_y ELSE IF cleared THEN KalmanFilter ELSE fwd_y
        /\ everReset' = (everReset \/ cleared)
        /\ pre_running' = is_running
        /\ pre_len' = Len(positions)
        /\ twice' = (btn # "none" /\ btn = lastBtn /\ raw.kind = "none" /\ lastRaw.kind = "none")
        /\ UNCHANGED <<k_m, k_n, k_prev>>

Start(raw) ==
    /\ lastBtn' = "start"
    /\ Rerun("start", raw)

Stop(raw) ==
    /\ lastBtn' = "stop"
    /\ Rerun("stop", raw)

Reset(raw) ==
    /\ lastBtn' = "reset"
    /\ Rerun("reset", raw)

Poll(raw) ==
    /\ lastBtn' = "none"
    /\ Rerun("none", raw)

InitRest ==
    /\ is_running = SessionInit.is_running
    /\ positions = SessionInit.positions
    /\ velocity = SessionInit.velocity
    /\ accel_data = SessionInit.accel_data
    /\ last_ts = SessionInit.last_ts
    /\ kalman_x = KalmanFilter
    /\ kalman_y = KalmanFilter
    /\ phase = Classify(SessionInit.accel_data)
    /\ warned = FALSE
    /\ ingested = FALSE
    /\ dt = None
    /\ lastBtn = "none"
    /\ lastRaw = NoPayload
    /\ fed = <<>>
    /\ appended = <<>>
    /\ fwd_x = KalmanFilter
    /\ fwd_y = KalmanFilter
    /\ everReset = FALSE
    /\ nTotal = 0
    /\ pre_running = FALSE
    /\ pre_len = 0
    /\ twice = FALSE
    /\ k_m = Zero
    /\ k_n = 0
    /\ k_prev = KalmanFilter

Init == positions_maxlen = SessionInit.maxlen /\ InitRest

Next ==
    \/ \E raw \in Payloads : Start(raw)
    \/ \E raw \in Payloads : Stop(raw)
    \/ \E raw \in Payloads : Reset(raw)
    \/ \E raw \in Payloads : Poll(raw)

Spec == Init /\ [][Next]_vars

(***************************************************************************)
(* The deque on its own: deque(maxlen=N) for small N, append and clear.    *)
(***************************************************************************)
Points == { <<Zero, Zero>>, <<One, Zero>> }

InitLog == positions_maxlen \in 1..MaxCap /\ InitRest

LogAppend(p) ==
    /\ Len(appended) < positions_maxlen + 5
    /\ positions' = DequeAppend(positions, positions_maxlen, p)
    /\ appended' = Append(appended, p)
    /\ UNCHANGED <<is_running, positions_maxlen, velocity, accel_data, last_ts,
                   kalman_x, kalman_y, phase, warned, ingested, dt, lastBtn, lastRaw,
                   fed, fwd_x, fwd_y, everReset, nTotal, pre_running, pre_len, twice,
                   k_m, k_n, k_prev>>

LogClear ==
    /\ positions' = <<>>
    /\ appended' = <<>>
    /\ UNCHANGED <<is_running, positions_maxlen, velocity, accel_data, last_ts,
                   kalman_x, kalman_y, phase, warned, ingested, dt, lastBtn, lastRaw,
                   fed, fwd_x, fwd_y, everReset, nTotal, pre_running, pre_len, twice,
                   k_m, k_n, k_prev>>

NextLog ==
    \/ \E p \in Points : LogAppend(p)
    \/ LogClear

SpecLog == InitLog /\ [][NextLog]_vars

(***************************************************************************)
(* The phase classification on its own: accel_data is given any value of a *)
(* small set, as line 149 stores it, and the phase is rendered from it, as *)
(* every rerun does, the run flag staying False.                           *)
(***************************************************************************)
AccelComponents ==
    { Zero, <<49, 100>>, <<1, 2>>, <<3, 2>>, <<-3, 2>>, <<151, 100>>, NaN }

PhaseStore(a) ==
    /\ accel_data' = a
    /\ phase' = Classify(a)
    /\ UNCHANGED <<is_running, positions, positions_maxlen, velocity, last_ts,
                   kalman_x, kalman_y, warned, ingested, dt, lastBtn, lastRaw,
                   fed, appended, fwd_x, fwd_y, everReset, nTotal,
                   pre_running, pre_len, twice, k_m, k_n, k_prev>>

PhaseQuery ==
    /\ phase' = Classify(accel_data)
    /\ UNCHANGED <<is_running, positions, positions_maxlen, velocity, accel_data, last_ts,
                   kalman_x, kalman_y, warned, ingested, dt, lastBtn, lastRaw,
                   fed, appended, fwd_x, fwd_y, everReset, nTotal,
                   pre_running, pre_len, twice, k_m, k_n, k_prev>>

NextPhase ==
    \/ \E a \in AccelComponents \X AccelComponents \X AccelComponents : PhaseStore(a)
    \/ PhaseQuery

SpecPhase == Init /\ [][NextPhase]_vars

(***************************************************************************)
(* One filter on its own: a filter is constructed (lines 58-62, as line 72 *)
(* does) and update (lines 64-70) is applied to it repeatedly with one     *)
(* constant measurement.  The estimates are exact fractions whose terms    *)
(* grow with every update; Representable keeps the next update within the  *)
(* width of the integers the arithmetic is carried out in.                 *)
(***************************************************************************)
MaxMeasurement == 20
MaxUpdates == 3

Measurements == { Fl(i) : i \in (0 - MaxMeasurement)..MaxMeasurement }

Representable(f) == f.x[2] <= 1100 /\ f.P[2] <= 100000000

KNew(m) ==
    /\ kalman_x' = KalmanFilter
    /\ k_m' = m
    /\ k_n' = 0
    /\ k_prev' = KalmanFilter
    /\ UNCHANGED <<is_running, positions, positions_maxlen, velocity, accel_data, last_ts,
                   kalman_y, phase, warned, ingested, dt, lastBtn, lastRaw,
                   fed, appended, fwd_x, fwd_y, everReset, nTotal,
                   pre_running, pre_len, twice>>

KUpdate ==
    /\ k_n < MaxUpdates
    /\ Representable(kalman_x)
    /\ kalman_x' = KalmanUpdate(kalman_x, k_m)
    /\ k_prev' = kalman_x
    /\ k_n' = k_n + 1
    /\ UNCHANGED <<is_running, positions, positions_maxlen, velocity, accel_data, last_ts,
                   kalman_y, phase, warned, ingested, dt, lastBtn, lastRaw,
                   fed, appended, fwd_x, fwd_y, everReset, nTotal,
                   pre_running, pre_len, twice, k_m>>

NextKalman ==
    \/ \E m \in Measurements : KNew(m)
    \/ KUpdate

\* The steps that count one more update are the steps of KUpdate; the update
\* is repeated, so one is taken whenever one stays possible.
KUpdateDue ==
    /\ k_n < MaxUpdates
    /\ Representable(kalman_x)
    /\ k_n' = k_n + 1

SpecKalman == Init /\ [][NextKalman]_vars /\ WF_k_n(KUpdateDue)

(***************************************************************************)
(* Properties.                                                             *)
(***************************************************************************)
ZeroVec2 == <<Zero, Zero>>
ZeroVec3 == <<Zero, Zero, Zero>>

\* C1: while the run state is Idle, a rerun that delivers any payload (valid,
\* malformed, with or without timestamp) and presses no button changes none of
\* trajectory, velocity, last filtered acceleration, last timestamp and run
\* state, integrates nothing and raises no warning.
C1_IdleIngestNoOp ==
    [][(~is_running /\ lastBtn' = "none")
         => /\ UNCHANGED <<is_running, positions, velocity, accel_data, last_ts>>
            /\ ~warned'
            /\ ~ingested']_vars

\* Idle, with a trajectory, right after a valid payload was delivered.
C1_Witness ==
    /\ ~is_running
    /\ ~pre_running
    /\ lastBtn = "none"
    /\ lastRaw \in ValidPayloads
    /\ Len(positions) > 0

\* C2: after a rerun triggered by Reset, whatever the state before it, the run
\* state is Idle, the trajectory is empty, velocity is (0,0), the last filtered
\* acceleration is (0,0,0), the last timestamp is absent, both filters have
\* estimate 0 and covariance 1, and the rerun integrated no payload.
C2_ResetClearsAll ==
    lastBtn = "reset"
      => /\ ~is_running
         /\ positions = <<>>
         /\ velocity = ZeroVec2
         /\ accel_data = ZeroVec3
         /\ last_ts = None
         /\ kalman_x.x = Zero /\ kalman_x.P = One
         /\ kalman_y.x = Zero /\ kalman_y.P = One
         /\ ~ingested

\* Reset pressed while Running with a trajectory and a payload in the URL.
C2_Witness ==
    /\ lastBtn = "reset"
    /\ pre_running
    /\ pre_len > 0
    /\ lastRaw \in ValidPayloads

\* C3: a rerun triggered by Stop ends Idle with trajectory, velocity, last
\* filtered acceleration and last timestamp exactly as before; and a Start after
\* a Stop that integrates a payload continues from the retained latest point and
\* velocity.
C3_StopKeepsState ==
    [][/\ lastBtn' = "stop"
            => /\ ~is_running'
               /\ UNCHANGED <<positions, velocity, accel_data, last_ts>>
       /\ (lastBtn = "stop" /\ lastBtn' = "start" /\ ingested')
            => /\ velocity'[1] = FAdd(velocity[1], FMul(accel_data'[1], dt'))
               /\ velocity'[2] = FAdd(velocity[2], FMul(accel_data'[2], dt'))
               /\ Latest(positions')[1] = FAdd(Latest(positions)[1], FMul(velocity'[1], dt'))
               /\ Latest(positions')[2] = FAdd(Latest(positions)[2], FMul(velocity'[2], dt'))
               /\ Len(positions') = Len(positions) + 1]_vars

\* Start integrated a payload from an Idle state that still held a trajectory
\* and a velocity: the state a Stop had left.
C3_Witness ==
    /\ lastBtn = "start"
    /\ ingested
    /\ ~pre_running
    /\ pre_len > 0
    /\ Len(positions) = pre_len + 1
    /\ velocity # ZeroVec2

LastN(q, n) == SubSeq(q, Len(q) - n + 1, Len(q))

Min(a, b) == IF a < b THEN a ELSE b

\* C4: for a deque of capacity N, the length never exceeds N and the deque holds
\* the last min(k, N) of the k points appended since it was last cleared, in
\* insertion order; after N+5 appends the length is exactly N.
C4_LogBounded ==
    /\ Len(positions) <= positions_maxlen
    /\ positions = LastN(appended, Min(Len(appended), positions_maxlen))
    /\ Len(appended) = positions_maxlen + 5 => Len(positions) = positions_maxlen

\* N+5 appends into a deque of capacity N = 2 that ends holding two different points.
C4_Witness ==
    /\ positions_maxlen = 2
    /\ Len(appended) = positions_maxlen + 5
    /\ Len(positions) = positions_maxlen
    /\ positions[1] # positions[2]

\* What dropping a payload in a Running rerun means: session data as before, the
\* rerun's filters never updated, a warning shown, still Running.
C5_Dropped ==
    /\ UNCHANGED <<positions, velocity, accel_data, last_ts>>
    /\ kalman_x' = KalmanFilter
    /\ kalman_y' = KalmanFilter
    /\ warned'
    /\ ~ingested'
    /\ is_running'

\* After a rerun that warned while Running, a valid payload is integrated as usual.
C5_NextValid ==
    (warned /\ is_running /\ lastBtn' = "none" /\ lastRaw' \in ValidPayloads)
      => /\ ingested'
         /\ ~warned'
         /\ is_running'
         /\ Len(appended') = Len(appended) + 1

C6_NoNonFinite ==
    /\ lastRaw \in NonFinitePayloads => ~ingested
    /\ IsFinite(velocity[1]) /\ IsFinite(velocity[2])
    /\ \A i \in 1..Len(positions) : IsFinite(positions[i][1]) /\ IsFinite(positions[i][2])
    /\ \A i \in 1..3 : IsFinite(accel_data[i])

\* C7: a Reset leaves exactly the state of a freshly loaded page, and the first
\* payload integrated after a Reset yields one trajectory point and the same
\* trajectory, velocity, filtered acceleration, last timestamp and filters as a
\* fresh page that is started and given that payload.
C7_ResetEqualsFresh ==
    /\ lastBtn = "reset"
         => /\ Session = SessionInit
            /\ kalman_x = KalmanFilter
            /\ kalman_y = KalmanFilter
            /\ phase = Classify(SessionInit.accel_data)
    /\ (everReset /\ ingested /\ Len(fed) = 1)
         => \E f \in {ScriptRun(SessionInit, "start", fed[1])} :
              /\ Session = f.s
              /\ kalman_x = f.kalman_x
              /\ kalman_y = f.kalman_y
              /\ dt = f.dt
              /\ Len(positions) = 1

\* The first payload integrated after a Reset that discarded earlier payloads.
C7_Witness ==
    /\ everReset
    /\ ingested
    /\ Len(fed) = 1
    /\ nTotal > 1
    /\ lastRaw \in ValidPayloads
    /\ lastRaw.ts # Num(Zero)

\* C8 as stated: the filters change only when a payload is integrated or on
\* Reset, and each integrated payload is filtered starting from the estimate and
\* covariance the previous integrated payload left.
C8_FiltersAccumulate ==
    [][/\ (kalman_x' # kalman_x \/ kalman_y' # kalman_y)
            => (ingested' \/ lastBtn' = "reset")
       /\ ingested'
            => /\ kalman_x' = KalmanUpdate(fwd_x, ParseFloat(lastRaw'.x))
               /\ kalman_y' = KalmanUpdate(fwd_y, ParseFloat(lastRaw'.y))]_vars

\* C9: Start ends Running and Stop and Reset end Idle from every state; and a
\* rerun that repeats the previous rerun's button with no payload leaves the
\* session state as the first left it (and, when the first carried no payload
\* either, the filters and the rerun's outputs too).
C9_CommandsIdempotent ==
    [][/\ lastBtn' = "start" => is_running'
       /\ lastBtn' \in {"stop", "reset"} => ~is_running'
       /\ (lastBtn' # "none" /\ lastBtn' = lastBtn /\ lastRaw'.kind = "none")
            => /\ UNCHANGED session
               /\ lastRaw.kind = "none"
                    => UNCHANGED <<kalman_x, kalman_y, phase, warned, ingested, dt>>]_vars

\* Start pressed twice in a row without payload, on a trajectory.
C9_Witness ==
    /\ twice
    /\ lastBtn = "start"
    /\ pre_running
    /\ is_running
    /\ Len(positions) > 0

\* The payloads ax = 2, ay = 0, az = 0 with timestamps 0, 50, 100, ... ms.
Scenario(k) ==
    [i \in 1..k |-> Obj(Num(Fl(2)), Num(Zero), Num(Zero), Num(Fl(50 * (i - 1))))]

HasTs(raw) == raw.ts[1] = "num"

\* The timestamp of the latest payload in f that carries one, None if none does:
\* the lastTimestamp of the specification after integrating the payloads f.
RecordedTs(f) ==
    LET carrying == { i \in 1..Len(f) : HasTs(f[i]) }
    IN  IF carrying = {} THEN None
        ELSE f[CHOOSE i \in carrying : \A j \in carrying : j <= i].ts[2]

\* C11 as stated: whenever a payload carrying a timestamp ts is integrated and a
\* timestamp has been recorded since the last Reset (any value, 0 included), the
\* step uses dt = max(0.01, (ts - lastTimestamp) / 1000).
C11_TimestampDt ==
    [][(ingested' /\ HasTs(lastRaw') /\ RecordedTs(fed) # None)
         => dt' = FMax(dt_min, FDiv(FSub(lastRaw'.ts[2], RecordedTs(fed)), Fl(1000)))]_vars

\* C12 as stated: dt is the fallback 0.05 for the first payload integrated after
\* initialisation or Reset, and for every integrated payload that carries no
\* timestamp, whether or not a timestamp is recorded.
C12_FallbackDt ==
    [][(ingested' /\ (Len(fed') = 1 \/ ~HasTs(lastRaw'))) => dt' = dt_default]_vars

\* C13 as stated: last_ts becomes ts when a payload carrying ts is integrated,
\* becomes absent on Reset, and is unchanged by every other rerun (a payload
\* without timestamp, a dropped payload, Start, Stop).
C13_LastTsFrame ==
    [][/\ (ingested' /\ HasTs(lastRaw')) => last_ts' = lastRaw'.ts[2]
       /\ lastBtn' = "reset" => last_ts' = None
       /\ (~(ingested' /\ HasTs(lastRaw')) /\ lastBtn' # "reset") => last_ts' = last_ts]_vars

\* C14 as stated: a payload whose timestamp is not greater than the timestamp of
\* the previously integrated payload is integrated with dt = 0.01 exactly, and
\* no payload is ever integrated with dt <= 0.
C14_DegenerateTiming ==
    [][/\ (/\ ingested'
           /\ HasTs(lastRaw')
           /\ Len(fed) >= 1
           /\ HasTs(fed[Len(fed)])
           /\ ~FGt(lastRaw'.ts[2], fed[Len(fed)].ts[2]))
            => dt' = dt_min
       /\ ingested' => FGt(dt', Zero)]_vars

\* C15: every integrated payload makes one step: the stored filtered
\* acceleration becomes (ax_f, ay_f, az) with ax_f, ay_f the filter outputs and
\* az the raw z; velocity' = velocity + (ax_f, ay_f) * dt; and exactly one point
\* p + velocity' * dt is appended, p being the latest point or (0,0).
C15_EulerStep ==
    [][ingested'
         => /\ accel_data' = <<kalman_x'.x, kalman_y'.x, ParseFloat(lastRaw'.z)>>
            /\ velocity' = <<FAdd(velocity[1], FMul(accel_data'[1], dt')),
                             FAdd(velocity[2], FMul(accel_data'[2], dt'))>>
            /\ Latest(positions') = <<FAdd(Latest(positions)[1], FMul(velocity'[1], dt')),
                                      FAdd(Latest(positions)[2], FMul(velocity'[2], dt'))>>
            /\ appended' = Append(appended, Latest(positions'))]_vars

\* A payload with az = 1.5 integrated onto a trajectory, with a velocity that
\* differs from the filtered acceleration times dt (it was accumulated).
C15_Witness ==
    /\ ingested
    /\ pre_len > 0
    /\ Len(positions) = pre_len + 1
    /\ accel_data[3] = <<3, 2>>
    /\ IsFinite(velocity[1])
    /\ velocity[1] # Zero
    /\ velocity[1] # FMul(accel_data[1], dt)

\* An integrated payload whose filtered planar acceleration is zero.
C16_ZeroAccelStep == ingested' /\ accel_data'[1] = Zero /\ accel_data'[2] = Zero

\* C16 as stated: a step with filtered ax = ay = 0 leaves velocity and position
\* unchanged, whatever the velocity: the appended point equals the previous
\* latest point.
C16_Original ==
    [][C16_ZeroAccelStep
         => /\ velocity' = velocity
            /\ Latest(positions') = Latest(positions)]_vars

\* C16 as amended: a step with filtered ax = ay = 0 leaves the velocity
\* unchanged and appends the previous latest point moved by velocity * dt; the
\* appended point equals the previous latest point only when the velocity is zero.
C16_ZeroAccelCoasts ==
    [][C16_ZeroAccelStep
         => /\ velocity' = velocity
            /\ Latest(positions') = <<FAdd(Latest(positions)[1], FMul(velocity[1], dt')),
                                      FAdd(Latest(positions)[2], FMul(velocity[2], dt'))>>
            /\ velocity = ZeroVec2 => Latest(positions') = Latest(positions)]_vars

\* A zero-acceleration payload integrated at non-zero finite velocity: the new
\* point differs from the one before it.
C16_Witness ==
    /\ ingested
    /\ accel_data[1] = Zero /\ accel_data[2] = Zero
    /\ IsFinite(velocity[1]) /\ velocity[1] # Zero
    /\ Len(positions) >= 2
    /\ positions[Len(positions)] # positions[Len(positions) - 1]

\* ax^2 + ay^2 + az^2 of a stored acceleration
SumSq(a) == FAdd(FAdd(FMul(a[1], a[1]), FMul(a[2], a[2])), FMul(a[3], a[3]))

\* C17: the phase shown is a function of the stored acceleration alone:
\* Accelerating iff ax^2+ay^2+az^2 > 1.5^2, Braking iff it is < 0.5^2, Stable
\* otherwise, so the magnitudes 1.5 and 0.5 are Stable; also while Idle.
C17_PhaseThresholds ==
    /\ phase \in {"Accelerating", "Braking", "Stable"}
    /\ phase = "Accelerating" <=> FGt(SumSq(accel_data), <<9, 4>>)
    /\ phase = "Braking" <=> FLt(SumSq(accel_data), <<1, 4>>)
    /\ SumSq(accel_data) \in { <<9, 4>>, <<1, 4>> } => phase = "Stable"

\* Idle, with a stored acceleration of magnitude exactly 1.5, shown as Stable.
C17_Witness ==
    /\ ~is_running
    /\ accel_data = <<Zero, Zero, <<3, 2>>>>
    /\ phase = "Stable"


\* The level the covariance cannot go under: Q*R / (Q + R) = 1/1100.
CovarianceFloor ==
    FDiv(FMul(process_variance, measurement_variance),
         FAdd(process_variance, measurement_variance))

\* The order of two positive fractions a/b and c/d, -1, 0 or 1, found from
\* their integer parts and then from the remainders' reciprocals, so that no
\* product is formed.
RECURSIVE CmpPos(_, _, _, _)
CmpPos(a, b, c, d) ==
    LET qa == a \div b
        qc == c \div d
        ra == a % b
        rc == c % d
    IN  IF qa # qc THEN (IF qa < qc THEN 0 - 1 ELSE 1)
        ELSE IF ra = 0 /\ rc = 0 THEN 0
        ELSE IF ra = 0 THEN 0 - 1
        ELSE IF rc = 0 THEN 1
        ELSE 0 - CmpPos(b, ra, d, rc)

\* p < q for two positive finite covariances
CovLess(p, q) == CmpPos(p[1], p[2], q[1], q[2]) < 0

\* One update of the filter under study: the error m - x keeps its sign and
\* strictly shrinks (or stays 0), and the covariance does not grow.
C18_UpdateStep ==
    k_n' = k_n + 1
      => LET e == FSub(k_m, kalman_x.x)
             e1 == FSub(k_m, kalman_x'.x)
         IN  /\ e = Zero => e1 = Zero
             /\ FGt(e, Zero) => (FGt(e1, Zero) /\ FLt(e1, e))
             /\ FLt(e, Zero) => (FLt(e1, Zero) /\ FGt(e1, e))
             /\ ~CovLess(kalman_x.P, kalman_x'.P)

C19_InitialPhaseBraking ==
    (Len(fed) = 0 \/ lastBtn = "reset")
      => /\ accel_data = ZeroVec3
         /\ phase = "Braking"
         /\ phase # "Stable"

\* Right after a Reset that cleared a non-empty trajectory.
C19_Witness ==
    /\ lastBtn = "reset"
    /\ pre_len > 0
    /\ fwd_x = KalmanFilter
    /\ Len(fed) = 0
    /\ phase = "Braking"


\* The rerun ends Running with a payload that parses.
C20_RunningParseable ==
    /\ is_running'
    /\ lastRaw'.kind # "none"
    /\ ~ParseRaises(lastRaw')

\* C20: payloads are not de-duplicated.  Every rerun that ends Running with a
\* parseable payload integrates it and appends exactly one point, every other
\* rerun appends none (Reset empties the count), so the points appended since
\* the last Reset are as many as those reruns; and when the payload is the one
\* integrated last, with the same non-zero timestamp, the step uses
\* dt = dt_min = 0.01 and still updates the velocity and appends its point.
C20_NoDeduplication ==
    [][/\ C20_RunningParseable
            => (ingested' /\ Len(appended') = Len(appended) + 1)
       /\ (~C20_RunningParseable /\ lastBtn' # "reset") => appended' = appended
       /\ lastBtn' = "reset" => appended' = <<>>
       /\ Len(appended') = Len(fed')
       /\ (/\ is_running'
           /\ Len(fed) >= 1
           /\ lastRaw' = fed[Len(fed)]
           /\ HasTs(lastRaw')
           /\ lastRaw'.ts[2] # Zero)
            => /\ ingested'
               /\ dt' = dt_min
               /\ velocity' = <<FAdd(velocity[1], FMul(accel_data'[1], dt_min)),
                                FAdd(velocity[2], FMul(accel_data'[2], dt_min))>>
               /\ appended' = Append(appended, Latest(positions'))]_vars

\* The same payload, timestamp 50, integrated twice in a row: two points, the
\* second one further on, the velocity grown by the second step.
C20_Witness ==
    /\ ingested
    /\ is_running
    /\ Len(fed) >= 2
    /\ fed[Len(fed)] = fed[Len(fed) - 1]
    /\ lastRaw = Obj(Num(Fl(2)), Num(Zero), Num(Zero), Num(Fl(50)))
    /\ dt = dt_min
    /\ Len(appended) >= 2
    /\ appended[Len(appended)] # appended[Len(appended) - 1]

====
